---- MODULE Spec2Model ----
(***************************************************************************)
(* A model of x-mcp-server (src/src/index.ts): the media validators        *)
(* uploadImage / uploadVideo, the per-endpoint throttle withRateLimit and  *)
(* the CallToolRequestSchema handler that composes them.                   *)
(*                                                                         *)
(* Time is Date.now() in milliseconds.  Every await of the source is a     *)
(* suspension point and therefore the boundary between two actions; the    *)
(* code between two awaits runs inside one action.  Paths are sequences of *)
(* one-character strings so that toLowerCase / split('.') / pop are        *)
(* computed, not assumed.                                                  *)
(***************************************************************************)
EXTENDS Integers, Sequences, FiniteSets, TLC

VARIABLES
    clock,            \* Date.now()
    rateLimitResets,  \* index.ts:118  endpoint -> not-usable-before instant
    inv,              \* the tool invocations in progress, one record per slot
    fs,               \* the filesystem: resolved path the client names -> what stat() finds
    budget,           \* number of requests the client will still send
    recent            \* the endpoint whose successful response was sent at this very instant

vars == <<clock, rateLimitResets, inv, fs, budget, recent>>

----------------------------------------------------------------------------
(* Bounds of the model *)

MaxCalls == 2        \* requests of a run with overlapping invocations
MaxSeqCalls == 3     \* requests of a run whose invocations are issued one at a time
MaxWindows == 1      \* the clock reaches MaxWindows cooldown periods

\* invocations that can be in progress together
Slots == 1..2

\* the instants inside one cooldown period at which the clock is observed
SubSteps == {0, 500, 1000}

----------------------------------------------------------------------------
(* Program constants *)

Endpoints == {"home", "tweet", "reply", "delete"}

Cooldown == 15 * 60 * 1000

Buffer == 1000

IMAGE_MAX_SIZE == 5 * 1024 * 1024

VIDEO_MAX_SIZE == 512 * 1024 * 1024

LONG_VIDEO_SIZE == 15 * 1024 * 1024

InvalidRequest == "InvalidRequest"
MethodNotFound == "MethodNotFound"
InternalError == "InternalError"

ImageMimeTypes ==
    << <<"png", "image/png">>, <<"jpg", "image/jpeg">>, <<"jpeg", "image/jpeg">>,
       <<"gif", "image/gif">>, <<"webp", "image/webp">> >>

VideoMimeTypes ==
    << <<"mp4", "video/mp4">>, <<"mov", "video/quicktime">>, <<"avi", "video/x-msvideo">>,
       <<"webm", "video/webm">>, <<"m4v", "video/x-m4v">> >>

----------------------------------------------------------------------------
(* Strings as sequences of characters *)

S(str) ==
    CASE str = "png" -> <<"p","n","g">>
      [] str = "jpg" -> <<"j","p","g">>
      [] str = "jpeg" -> <<"j","p","e","g">>
      [] str = "gif" -> <<"g","i","f">>
      [] str = "webp" -> <<"w","e","b","p">>
      [] str = "mp4" -> <<"m","p","4">>
      [] str = "mov" -> <<"m","o","v">>
      [] str = "avi" -> <<"a","v","i">>
      [] str = "webm" -> <<"w","e","b","m">>
      [] str = "m4v" -> <<"m","4","v">>
      [] str = "constructor" -> <<"c","o","n","s","t","r","u","c","t","o","r">>
      [] str = "__proto__" -> <<"_","_","p","r","o","t","o","_","_">>

UpperToLower ==
    [c \in {"A","G","I","J","M","N","O","P","V"} |->
        CASE c = "A" -> "a" [] c = "G" -> "g" [] c = "I" -> "i" [] c = "J" -> "j"
          [] c = "M" -> "m" [] c = "N" -> "n" [] c = "O" -> "o" [] c = "P" -> "p"
          [] c = "V" -> "v"]

\* String.prototype.toLowerCase
ToLowerCase(s) ==
    [k \in 1..Len(s) |-> IF s[k] \in DOMAIN UpperToLower THEN UpperToLower[s[k]] ELSE s[k]]

LastIndexOf(s, c) ==
    IF \E k \in 1..Len(s) : s[k] = c
    THEN CHOOSE k \in 1..Len(s) : s[k] = c /\ \A j \in (k+1)..Len(s) : s[j] # c
    ELSE 0

\* s.split('.').pop(): the text after the last '.', the whole string when it has none
SplitPop(s) == SubSeq(s, LastIndexOf(s, ".") + 1, Len(s))

\* path.basename of an absolute path
Basename(s) == SubSeq(s, LastIndexOf(s, "/") + 1, Len(s))

Cwd == <<"/","w">>

\* path.resolve of a path without '.' or '..' segments
Resolve(p) == IF Len(p) > 0 /\ p[1] = "/" THEN p ELSE Cwd \o <<"/">> \o p

----------------------------------------------------------------------------
(* Property lookup on an object literal *)

\* the all-lowercase property names every object literal inherits from Object.prototype
ObjectPrototypeKeys == {S("constructor"), S("__proto__")}

InheritedValue == "[object inherited from Object.prototype]"

Undefined == "undefined"

OwnKeys(table) == {S(table[k][1]) : k \in 1..Len(table)}

\* mimeTypes[ext]
Lookup(table, ext) ==
    IF ext \in OwnKeys(table)
    THEN table[CHOOSE k \in 1..Len(table) : S(table[k][1]) = ext][2]
    ELSE IF ext \in ObjectPrototypeKeys THEN InheritedValue ELSE Undefined

\* Object.keys(mimeTypes).join(', ')
Supported(table) == [k \in 1..Len(table) |-> table[k][1]]

----------------------------------------------------------------------------
(* Errors and responses.  A message is the sequence of the pieces its       *)
(* template string concatenates.                                           *)

NumCode(n) == [t |-> "number", n |-> n, s |-> ""]

StrCode(str) == [t |-> "string", n |-> 0, s |-> str]

NoCode == [t |-> "undefined", n |-> 0, s |-> ""]

\* new Error(message)
Error(msg) == [isMcp |-> FALSE, mcpCode |-> "", code |-> NoCode, message |-> msg]

\* an error object of the remote client or of the runtime, with its code property
CodedError(code, msg) == [isMcp |-> FALSE, mcpCode |-> "", code |-> code, message |-> msg]

\* new McpError(code, message)
McpError(code, msg) == [isMcp |-> TRUE, mcpCode |-> code, code |-> NoCode, message |-> msg]

NoError == Error(<<>>)

\* return { content: [{ type: 'text', text: JSON.stringify(x.data, null, 2) }] }
Content(data) == [kind |-> "content", error |-> NoError, text |-> <<"JSON.stringify(", data, ", null, 2)">>]

\* the handler's promise rejected with error
Rejected(error) == [kind |-> "error", error |-> error, text |-> <<>>]

NoResult == [kind |-> "none", error |-> NoError, text |-> <<>>]

\* error?.code === 429
Is429(error) == error.code.t = "number" /\ error.code.n = 429

\* (size / 1024 / 1024).toFixed(2)
ToFixed2MB(size) ==
    LET MB == 1024 * 1024
        h == (size \div MB) * 100 + ((size % MB) * 200 + MB) \div (2 * MB)
        frac == h % 100
    IN  <<ToString(h \div 100), ".", ToString(frac \div 10), ToString(frac % 10)>>

\* Array.prototype.join(', ')
RECURSIVE Join(_)
Join(list) ==
    IF Len(list) = 0 THEN <<>>
    ELSE IF Len(list) = 1 THEN list
    ELSE <<Head(list), ", ">> \o Join(Tail(list))

----------------------------------------------------------------------------
(* uploadImage and uploadVideo, from the stat() result to the readFile call *)

\* stat() rejects (ENOENT)
Missing == [kind |-> "missing", size |-> 0]

\* what stat(path) finds in filesystem f
Stat(f, path) == IF path \in DOMAIN f THEN f[path] ELSE Missing

Valid(mimeType) == [ok |-> TRUE, mimeType |-> mimeType, error |-> NoError]

Invalid(msg) == [ok |-> FALSE, mimeType |-> Undefined, error |-> Error(msg)]

\* index.ts:19-56, given the stat result st of sanitizedPath
ValidateImage(sanitizedPath, st) ==
    LET ext == SplitPop(ToLowerCase(sanitizedPath)) IN
    IF st.kind = "missing"
    THEN Invalid(<<"File not found: ">> \o Basename(sanitizedPath))
    ELSE IF st.kind # "file"
    THEN Invalid(<<"Path is not a file: ">> \o Basename(sanitizedPath))
    ELSE IF st.size > IMAGE_MAX_SIZE
    THEN Invalid(<<"File size exceeds 5MB limit (">> \o ToFixed2MB(st.size) \o <<"MB)">>)
    ELSE IF ext = <<>> \/ Lookup(ImageMimeTypes, ext) = Undefined
    THEN Invalid(<<"Unsupported file format. Supported formats: ">> \o Join(Supported(ImageMimeTypes)))
    ELSE Valid(Lookup(ImageMimeTypes, ext))

\* index.ts:66-103, given the stat result st of sanitizedPath
ValidateVideo(sanitizedPath, st) ==
    LET ext == SplitPop(ToLowerCase(sanitizedPath)) IN
    IF st.kind = "missing"
    THEN Invalid(<<"File not found: ">> \o Basename(sanitizedPath))
    ELSE IF st.kind # "file"
    THEN Invalid(<<"Path is not a file: ">> \o Basename(sanitizedPath))
    ELSE IF st.size > VIDEO_MAX_SIZE
    THEN Invalid(<<"Video size exceeds 512MB limit (">> \o ToFixed2MB(st.size) \o <<"MB)">>)
    ELSE IF ext = <<>> \/ Lookup(VideoMimeTypes, ext) = Undefined
    THEN Invalid(<<"Unsupported video format. Supported formats: ">> \o Join(Supported(VideoMimeTypes)))
    ELSE Valid(Lookup(VideoMimeTypes, ext))

Validate(class, sanitizedPath, st) ==
    IF class = "image" THEN ValidateImage(sanitizedPath, st) ELSE ValidateVideo(sanitizedPath, st)

\* longVideo: fileStats.size > 15 * 1024 * 1024
LongVideo(class, size) == class = "video" /\ size > LONG_VIDEO_SIZE

----------------------------------------------------------------------------
(* What the environment can supply *)

ToolNames == {"get_home_timeline", "create_tweet", "reply_to_tweet", "delete_tweet"}

UnknownTool == "list_followers"

\* the 'data' of a resolved remote call
RemoteData == "data"

\* the media id a resolved uploadMedia returns
MediaId == "media-1"

NoMedia == ""

\* rejections of the remote client: HTTP 429, another HTTP status, a network error
RemoteErrors ==
    { CodedError(NumCode(429), <<"Request failed with code 429">>),
      CodedError(NumCode(403), <<"Request failed with code 403">>),
      CodedError(StrCode("ECONNRESET"), <<"socket hang up">>) }

\* rejection of readFile
ReadError == CodedError(StrCode("EACCES"), <<"EACCES: permission denied">>)

File(size) == [kind |-> "file", size |-> size]

Directory == [kind |-> "directory", size |-> 4096]

P(dir, name, ext) == dir \o name \o <<".">> \o ext

\* the filesystem of the throttling runs
SmallFs == P(<<"/","w","/">>, <<"a">>, S("png")) :> File(1024)

\* a path under the working directory, as the caller may give it
Relative(p) ==
    IF Len(p) > Len(Cwd) + 1 /\ SubSeq(p, 1, Len(Cwd) + 1) = Cwd \o <<"/">>
    THEN SubSeq(p, Len(Cwd) + 2, Len(p))
    ELSE p

\* the image_path / video_path arguments a caller gives against filesystem f
InputPaths(f) == {Relative(p) : p \in DOMAIN f}

\* an absent (or empty) optional string argument: falsy
NoPath == <<>>

Instants == {w * Cooldown + d : w \in 0..MaxWindows, d \in SubSteps}

----------------------------------------------------------------------------
(* One tool invocation *)

Idle ==
    [pc |-> "idle", name |-> "", hasArgs |-> FALSE, image_path |-> NoPath, video_path |-> NoPath,
     class |-> "none", sanitizedPath |-> NoPath, size |-> 0, mimeType |-> Undefined,
     longVideo |-> FALSE, mediaId |-> NoMedia,
     endpoint |-> "", now |-> 0, resetTime |-> 0, deadline |-> 0,
     probed |-> FALSE, readIssued |-> FALSE, uploadIssued |-> FALSE, waited |-> FALSE,
     issued |-> "none",
     opError |-> NoError, thrown |-> NoError, result |-> NoResult]

\* the handler's promise settles: its locals are gone, the request, what it did and
\* the response remain
Finish(r, result) ==
    [Idle EXCEPT !.pc = "done", !.name = r.name, !.hasArgs = r.hasArgs,
                 !.image_path = r.image_path, !.video_path = r.video_path,
                 !.probed = r.probed, !.readIssued = r.readIssued,
                 !.uploadIssued = r.uploadIssued, !.waited = r.waited, !.issued = r.issued,
                 !.opError = r.opError, !.thrown = r.thrown, !.result = result]

\* the outer catch wrapping every error, structured or not
OuterCatchWrapAll(error) == McpError(InternalError, <<"Twitter API error: ">> \o error.message)

\* index.ts:430-438: the handler's outer catch
OuterCatch(error) ==
    IF error.isMcp THEN error
    ELSE McpError(InternalError, <<"Twitter API error: ">> \o error.message)

\* an error thrown inside the handler's try block
Throw(r, error) == Finish(r, Rejected(OuterCatch(error)))

\* index.ts:337-339, 395-397, 279, 412: the remote call fn() makes
RemoteCall(r) ==
    CASE r.name = "get_home_timeline" -> "v2.homeTimeline"
      [] r.name = "create_tweet" ->
            IF r.mediaId # NoMedia THEN "v2.tweet({text, media})" ELSE "v2.tweet(text)"
      [] r.name = "reply_to_tweet" ->
            IF r.mediaId # NoMedia THEN "v2.tweet({text, reply, media})" ELSE "v2.reply(text, tweet_id)"
      [] r.name = "delete_tweet" -> "v2.deleteTweet"

\* index.ts:279, 336, 394, 412: the endpoint group of a tool
EndpointOf(name) ==
    CASE name = "get_home_timeline" -> "home"
      [] name = "create_tweet" -> "tweet"
      [] name = "reply_to_tweet" -> "reply"
      [] name = "delete_tweet" -> "delete"

\* index.ts:136: fn() is called; resetTime is not read again
StartOp(r) == [r EXCEPT !.pc = "inflight", !.issued = RemoteCall(r), !.resetTime = 0]

\* withRateLimit holding a per-endpoint lock: it also waits while another invocation of the
\* endpoint is inside withRateLimit
EnterRateLimitLocked(r) ==
    LET endpoint == EndpointOf(r.name)
        now == clock
        resetTime == rateLimitResets[endpoint]
        q == [r EXCEPT !.endpoint = endpoint, !.now = now, !.resetTime = resetTime,
                       !.class = "none", !.sanitizedPath = NoPath, !.size = 0,
                       !.mimeType = Undefined, !.longVideo = FALSE]
        busy == \E j \in DOMAIN inv : inv[j].pc \in {"waiting", "inflight"} /\ inv[j].endpoint = endpoint
    IN  IF now < resetTime
        THEN [q EXCEPT !.pc = "waiting", !.waited = TRUE,
                       !.deadline = clock + (resetTime - now + Buffer)]
        ELSE IF busy
        THEN [q EXCEPT !.pc = "waiting", !.waited = TRUE, !.deadline = clock + Buffer]
        ELSE StartOp(q)

\* index.ts:127-136: withRateLimit up to its first await; the locals of uploadImage /
\* uploadVideo are gone by then
EnterRateLimit(r) ==
    LET endpoint == EndpointOf(r.name)
        now == clock
        resetTime == rateLimitResets[endpoint]
        q == [r EXCEPT !.endpoint = endpoint, !.now = now, !.resetTime = resetTime,
                       !.class = "none", !.sanitizedPath = NoPath, !.size = 0,
                       !.mimeType = Undefined, !.longVideo = FALSE]
    IN  IF now < resetTime
        THEN [q EXCEPT !.pc = "waiting", !.waited = TRUE,
                       !.deadline = clock + (resetTime - now + Buffer)]
        ELSE StartOp(q)

\* index.ts:138, 143: the instant withRateLimit stores
NextReset(r) == r.now + Cooldown

\* index.ts:140-149: withRateLimit's catch
RateLimitCatch(endpoint, error) ==
    IF Is429(error)
    THEN McpError(InvalidRequest,
                  <<"Rate limit exceeded for ", endpoint, ". Please try again in 15 minutes.">>)
    ELSE error

\* the instant stored in the catch block before the 429 test
StoresResetOnAnyError(outcome) == TRUE

\* index.ts:138, 141-143: whether withRateLimit stores a new instant
StoresReset(outcome) == outcome.ok \/ Is429(outcome.error)

\* the upload error rethrown as it is
UploadCatchRethrow(class, error) == error

\* index.ts:316-321, 328-333: the catch around uploadImage / uploadVideo
UploadCatch(class, error) ==
    McpError(InvalidRequest,
             <<IF class = "image" THEN "Failed to upload image: " ELSE "Failed to upload video: ">>
                \o error.message)

\* the mutual-exclusion check left out
BothAttachmentsUnchecked(image_path, video_path) == FALSE

\* index.ts:303, 361
BothAttachments(image_path, video_path) == image_path # NoPath /\ video_path # NoPath

BothMessage(name) ==
    IF name = "create_tweet"
    THEN <<"Cannot attach both image and video to the same tweet. Please provide only one.">>
    ELSE <<"Cannot attach both image and video to the same reply. Please provide only one.">>

----------------------------------------------------------------------------
(* Actions *)

Active(r) == r.pc # "idle"

\* index.ts:273-428: the handler from the request to its first await (or to its end)
Dispatch(r) ==
    IF r.name \notin ToolNames
    THEN Throw(r, McpError(MethodNotFound, <<"Unknown tool: ", r.name>>))
    ELSE IF ~r.hasArgs
    THEN Throw(r, Error(<<"Cannot destructure property of 'request.params.arguments' as it is undefined.">>))
    ELSE IF r.name \in {"get_home_timeline", "delete_tweet"}
    THEN EnterRateLimit(r)
    ELSE IF BothAttachments(r.image_path, r.video_path)
    THEN Throw(r, McpError(InvalidRequest, BothMessage(r.name)))
    ELSE IF r.image_path # NoPath
    THEN [r EXCEPT !.pc = "stat", !.class = "image", !.sanitizedPath = Resolve(r.image_path),
                   !.probed = TRUE]
    ELSE IF r.video_path # NoPath
    THEN [r EXCEPT !.pc = "stat", !.class = "video", !.sanitizedPath = Resolve(r.video_path),
                   !.probed = TRUE]
    ELSE EnterRateLimit(r)

\* index.ts:132-136: after the throttle wait the operation is run
AfterWait(r) == StartOp(r)

\* slot i's invocation moves to record q
Step(i, q) ==
    /\ inv' = [inv EXCEPT ![i] = q]
    /\ recent' = IF q.pc # "done" THEN recent
                 ELSE IF q.result.kind = "content" THEN EndpointOf(q.name) ELSE "none"

\* no settled handler is waiting for its response to be sent: the response goes out in the
\* microtasks that follow the handler's settling, before any other callback runs
Quiet == \A j \in Slots : inv[j].pc # "done"

\* the response of a settled handler is sent
Deliver(i) ==
    /\ inv[i].pc = "done"
    /\ inv' = [inv EXCEPT ![i] = Idle]
    /\ UNCHANGED <<clock, rateLimitResets, fs, budget, recent>>

\* a tools/call request arrives
Call(i) ==
    /\ Quiet
    /\ ~Active(inv[i])
    /\ \A j \in Slots : j < i => Active(inv[j])
    /\ budget > 0
    /\ \E name \in ToolNames \cup {UnknownTool}, hasArgs \in BOOLEAN,
          image_path, video_path \in InputPaths(fs) \cup {NoPath} :
          /\ name \notin {"create_tweet", "reply_to_tweet"} \/ ~hasArgs
                => image_path = NoPath /\ video_path = NoPath
          /\ name = UnknownTool => hasArgs
          /\ Step(i, Dispatch([Idle EXCEPT !.name = name, !.hasArgs = hasArgs,
                                           !.image_path = image_path,
                                           !.video_path = video_path]))
    /\ budget' = budget - 1
    /\ UNCHANGED <<clock, rateLimitResets, fs>>

\* index.ts:24-59, 71-106: stat() settles; validation; readFile is called
StatReturn(i) ==
    LET r == inv[i]
        st == Stat(fs, r.sanitizedPath)
        v == Validate(r.class, r.sanitizedPath, st)
    IN  /\ Quiet
        /\ r.pc = "stat"
        /\ Step(i, IF v.ok
                   THEN [r EXCEPT !.pc = "read", !.mimeType = v.mimeType, !.size = st.size,
                                  !.readIssued = TRUE]
                   ELSE Throw(r, UploadCatch(r.class, v.error)))
        /\ UNCHANGED <<clock, rateLimitResets, fs, budget>>

\* index.ts:59-60, 106-114: readFile settles; uploadMedia is called
ReadReturn(i) ==
    LET r == inv[i] IN
    /\ Quiet
    /\ r.pc = "read"
    /\ \E ok \in BOOLEAN :
          Step(i, IF ok
                  THEN [r EXCEPT !.pc = "upload", !.uploadIssued = TRUE,
                                 !.longVideo = LongVideo(r.class, r.size)]
                  ELSE Throw(r, UploadCatch(r.class, ReadError)))
    /\ UNCHANGED <<clock, rateLimitResets, fs, budget>>

Outcomes ==
    {[ok |-> TRUE, error |-> NoError]} \cup {[ok |-> FALSE, error |-> e] : e \in RemoteErrors}

\* index.ts:60, 109, 315-340, 373-398: uploadMedia settles; on success withRateLimit is entered
UploadReturn(i) ==
    LET r == inv[i] IN
    /\ Quiet
    /\ r.pc = "upload"
    /\ \E outcome \in Outcomes :
          Step(i, IF outcome.ok
                  THEN EnterRateLimit([r EXCEPT !.mediaId = MediaId])
                  ELSE Throw(r, UploadCatch(r.class, outcome.error)))
    /\ UNCHANGED <<clock, rateLimitResets, fs, budget>>

\* index.ts:132-136: the throttle wait's timer fires and fn() is called
TimerFire(i) ==
    LET r == inv[i] IN
    /\ Quiet
    /\ r.pc = "waiting"
    /\ clock >= r.deadline
    /\ Step(i, AfterWait(r))
    /\ UNCHANGED <<clock, rateLimitResets, fs, budget>>

\* index.ts:136-150 and the handler's return or outer catch: fn() settles
OpReturn(i) ==
    LET r == inv[i] IN
    /\ Quiet
    /\ r.pc = "inflight"
    /\ \E outcome \in Outcomes :
          /\ rateLimitResets' =
                IF StoresReset(outcome)
                THEN [rateLimitResets EXCEPT ![r.endpoint] = NextReset(r)]
                ELSE rateLimitResets
          /\ Step(i, IF outcome.ok
                     THEN Finish(r, Content(RemoteData))
                     ELSE Throw([r EXCEPT !.opError = outcome.error,
                                          !.thrown = RateLimitCatch(r.endpoint, outcome.error)],
                                RateLimitCatch(r.endpoint, outcome.error)))
    /\ UNCHANGED <<clock, fs, budget>>

\* time passes
Tick ==
    /\ Quiet
    /\ \E t \in Instants : t > clock /\ clock' = t
    /\ recent' = "none"
    /\ UNCHANGED <<rateLimitResets, inv, fs, budget>>

\* time passes, and a remote call settles within the cooldown period it was started in
TickResponsive ==
    /\ Quiet
    /\ \E t \in Instants :
          /\ t > clock
          /\ (\E i \in Slots : inv[i].pc = "inflight") => t \div Cooldown = clock \div Cooldown
          /\ clock' = t
    /\ recent' = "none"
    /\ UNCHANGED <<rateLimitResets, inv, fs, budget>>

----------------------------------------------------------------------------
(* Specifications *)

InitState(f, n) ==
    /\ clock = 0
    /\ rateLimitResets = [e \in Endpoints |-> 0]
    /\ inv = [i \in Slots |-> Idle]
    /\ fs = f
    /\ budget = n
    /\ recent = "none"

\* a filesystem in which the client names no file
NoFiles == [p \in {} |-> Missing]

\* overlapping invocations without attachments
Init == InitState(NoFiles, MaxCalls)

Next ==
    \/ \E i \in Slots : Call(i)
    \/ \E i \in Slots : TimerFire(i)
    \/ \E i \in Slots : OpReturn(i)
    \/ \E i \in Slots : Deliver(i)
    \/ Tick

Spec == Init /\ [][Next]_vars

\* invocations issued one at a time: each request follows the previous response
InitSeq == InitState(SmallFs, MaxSeqCalls)

NextSeq ==
    \/ Call(1)
    \/ StatReturn(1)
    \/ ReadReturn(1)
    \/ UploadReturn(1)
    \/ TimerFire(1)
    \/ OpReturn(1)
    \/ Deliver(1)
    \/ TickResponsive

SpecSeq == InitSeq /\ [][NextSeq]_vars

\* file names the media validators are given
MediaPaths ==
    {P(<<"/","w","/">>, <<"a">>, S(e)) : e \in {"png", "jpg", "jpeg", "gif", "webp"}}
    \cup {P(<<"/","w","/">>, <<"a">>, S(e)) : e \in {"mp4", "mov", "avi", "webm", "m4v"}}
    \cup {P(<<"/","w","/">>, <<"a">>, S(e)) : e \in {"constructor", "__proto__"}}
    \cup {P(<<"/","w","/">>, <<"a">>, <<"P","N","G">>), P(<<"/","w","/">>, <<"a">>, <<"M","o","V">>),
          P(<<"/","v","/">>, <<"a", ".", "m", "p", "4">>, S("jpg")),
          P(<<"/","w","/">>, <<"a">>, <<"b","m","p">>), P(<<"/","w","/">>, <<"a">>, <<>>),
          <<"/","w","/","p","n","g">>, <<"/","w",".","g","i","f","/","a">>}

\* what stat() finds there
MediaStats ==
    {Missing, Directory, File(0), File(IMAGE_MAX_SIZE), File(IMAGE_MAX_SIZE + 1),
     File(LONG_VIDEO_SIZE + 1), File(VIDEO_MAX_SIZE), File(VIDEO_MAX_SIZE + 1)}

\* one create_tweet or reply_to_tweet request against one file
InitMedia == \E p \in MediaPaths, st \in MediaStats : InitState(p :> st, 1)

NextMedia ==
    \/ Call(1)
    \/ StatReturn(1)
    \/ ReadReturn(1)
    \/ UploadReturn(1)
    \/ OpReturn(1)
    \/ Deliver(1)

SpecMedia == InitMedia /\ [][NextMedia]_vars

----------------------------------------------------------------------------
(* Steps of an invocation, as seen from outside *)

\* slot i's invocation enters withRateLimit in this step
Enters(i) ==
    /\ inv[i].pc \in {"idle", "upload"}
    /\ inv'[i].pc \in {"waiting", "inflight"}

\* slot i's invocation calls fn() in the step in which it entered withRateLimit
StartsAtOnce(i) ==
    /\ inv[i].pc \in {"idle", "upload"}
    /\ inv'[i].pc = "inflight"

\* slot i's throttle wait ends in this step
WaitEnds(i) == inv[i].pc = "waiting" /\ inv'[i] # inv[i]

\* fn() of slot i's invocation settles in this step
OpSettles(i) == inv[i].pc = "inflight" /\ inv'[i].pc = "done"

\* the media pipeline of slot i's invocation fails in this step
MediaFails(i) == inv[i].pc \in {"stat", "read", "upload"} /\ inv'[i].pc = "done"

IsMcp(r, code) ==
    /\ r.result.kind = "error"
    /\ r.result.error.isMcp
    /\ r.result.error.mcpCode = code

BothGiven(r) ==
    /\ r.name \in {"create_tweet", "reply_to_tweet"}
    /\ r.hasArgs
    /\ r.image_path # NoPath
    /\ r.video_path # NoPath

RateLimitMessage(endpoint) ==
    <<"Rate limit exceeded for ", endpoint, ". Please try again in 15 minutes.">>

----------------------------------------------------------------------------
(* C1.  An invocation that arrives while the clock is before the endpoint's   *)
(* instant R starts its operation only when the clock reads at least          *)
(* R + 1 second; and of two successful calls on one endpoint made back to     *)
(* back, the second starts its operation no earlier than the instant the      *)
(* first stored + 1 second.  Checked where invocations are issued one at a    *)
(* time, so that the instant stored by the first call is the one the second   *)
(* finds.                                                                     *)
C1_Claim ==
    [][\A i \in Slots :
         /\ StartsAtOnce(i) => clock >= rateLimitResets[EndpointOf(inv'[i].name)]
         /\ inv[i].pc = "waiting" /\ inv'[i].pc = "inflight"
              => clock >= inv[i].resetTime + Buffer
         /\ StartsAtOnce(i) /\ recent = EndpointOf(inv'[i].name)
              => clock >= rateLimitResets[recent] + Buffer]_vars

(* C2.  When fn() fails with code 429 the invocation fails with an            *)
(* invalid-request error naming the endpoint and "15 minutes", and the        *)
(* endpoint's instant is then 15 minutes after the failure, also when the     *)
(* invocation went through the throttle wait: the failure is not earlier      *)
(* than the end of that wait, so the instant is at least deadline + 15 min.   *)
C2_Claim ==
    [][\A i \in Slots :
         OpSettles(i) /\ Is429(inv'[i].opError) =>
            /\ IsMcp(inv'[i], InvalidRequest)
            /\ inv'[i].result.error.message = RateLimitMessage(inv[i].endpoint)
            /\ rateLimitResets'[inv[i].endpoint] <= clock + Cooldown
            /\ inv[i].waited =>
                  rateLimitResets'[inv[i].endpoint] >= inv[i].deadline + Cooldown]_vars

(* C3.  When fn() fails with an error that does not carry code 429,           *)
(* withRateLimit throws that same error and no endpoint's instant changes;    *)
(* the only steps that change an instant are those in which fn() resolved or  *)
(* failed with code 429.                                                      *)
C3_Thm ==
    [][/\ \A i \in Slots :
            OpSettles(i) /\ inv'[i].result.kind = "error" /\ ~Is429(inv'[i].opError) =>
               /\ inv'[i].opError \in RemoteErrors
               /\ inv'[i].thrown = inv'[i].opError
               /\ rateLimitResets' = rateLimitResets
       /\ rateLimitResets' # rateLimitResets =>
            \E i \in Slots :
               /\ OpSettles(i)
               /\ inv'[i].result.kind = "content" \/ Is429(inv'[i].opError)]_vars

\* a throttled operation has failed without code 429 while its endpoint was cooling down
C3_Witness ==
    \E i \in Slots :
        /\ inv[i].pc = "done"
        /\ inv[i].opError \in RemoteErrors
        /\ ~Is429(inv[i].opError)
        /\ inv[i].waited
        /\ rateLimitResets[EndpointOf(inv[i].name)] > 0

(* C4.  No step ever stores, for any endpoint, an instant smaller than the    *)
(* one stored, overlapping invocations included.                              *)
C4_Claim ==
    [][\A e \in Endpoints : rateLimitResets'[e] >= rateLimitResets[e]]_vars

(* C5.  create_tweet or reply_to_tweet with both image_path and video_path    *)
(* fails with an invalid-request error before any filesystem probe, read,     *)
(* upload, throttle wait or remote call, and leaves every instant unchanged.  *)
C5_Inv ==
    \A i \in Slots :
        BothGiven(inv[i]) =>
            /\ inv[i].pc = "done"
            /\ IsMcp(inv[i], InvalidRequest)
            /\ inv[i].result.error.message = BothMessage(inv[i].name)
            /\ ~inv[i].probed /\ ~inv[i].readIssued /\ ~inv[i].uploadIssued
            /\ ~inv[i].waited
            /\ inv[i].issued = "none"

C5_Thm ==
    /\ []C5_Inv
    /\ [][\A i \in Slots :
            BothGiven(inv'[i]) /\ inv'[i] # inv[i] => rateLimitResets' = rateLimitResets]_vars

\* a create_tweet with both attachments was refused while the tweet endpoint was cooling down
C5_Witness ==
    \E i \in Slots :
        /\ inv[i].pc = "done"
        /\ inv[i].name = "create_tweet"
        /\ BothGiven(inv[i])
        /\ rateLimitResets["tweet"] > clock

(* C6.  When the media pipeline of create_tweet or reply_to_tweet fails       *)
(* (validation, read or remote upload), no post or reply call is issued and   *)
(* the invocation fails with an invalid-request error whose message is        *)
(* "Failed to upload image: " or "Failed to upload video: " followed by the   *)
(* failure's own message; a post issued after a file was probed carries the   *)
(* uploaded media.                                                            *)
C6_Detail(r, f) ==
    CASE r.pc = "stat" -> {Validate(r.class, r.sanitizedPath, Stat(f, r.sanitizedPath)).error.message}
      [] r.pc = "read" -> {ReadError.message}
      [] r.pc = "upload" -> {e.message : e \in RemoteErrors}
      [] OTHER -> {}

C6_Thm ==
    /\ [](\A i \in Slots :
            inv[i].probed /\ inv[i].issued # "none" =>
               /\ inv[i].uploadIssued
               /\ inv[i].issued \in {"v2.tweet({text, media})", "v2.tweet({text, reply, media})"})
    /\ [][\A i \in Slots :
            MediaFails(i) =>
               /\ inv'[i].issued = "none"
               /\ ~inv'[i].waited
               /\ IsMcp(inv'[i], InvalidRequest)
               /\ Head(inv'[i].result.error.message) =
                     (IF inv[i].image_path # NoPath
                      THEN "Failed to upload image: " ELSE "Failed to upload video: ")
               /\ Tail(inv'[i].result.error.message) \in C6_Detail(inv[i], fs)
               /\ rateLimitResets' = rateLimitResets]_vars

\* the remote upload of a video has failed
C6_Witness ==
    \E i \in Slots :
        /\ inv[i].pc = "done"
        /\ inv[i].video_path # NoPath
        /\ inv[i].uploadIssued
        /\ inv[i].issued = "none"
        /\ inv[i].result.kind = "error"

(* C7.  Every invocation ends in a success content block or in a structured   *)
(* error: method-not-found for an unknown tool; invalid-request for both      *)
(* attachments, a media failure and a 429 of the throttled call;              *)
(* internal-error, with the original message after a fixed label, for any     *)
(* other failure.  A structured error leaves as it was thrown, and no raw     *)
(* error leaves the handler.                                                  *)
C7_Thm ==
    \A i \in Slots :
        LET r == inv[i] IN
        r.pc = "done" =>
            /\ r.result.kind \in {"content", "error"}
            /\ r.result.kind = "error" => r.result.error.isMcp
            /\ r.result.kind = "content" <=>
                  r.issued # "none" /\ r.opError = NoError /\ r.name \in ToolNames
            /\ r.name \notin ToolNames =>
                  /\ IsMcp(r, MethodNotFound)
                  /\ r.result.error.message = <<"Unknown tool: ", r.name>>
            /\ BothGiven(r) =>
                  /\ IsMcp(r, InvalidRequest)
                  /\ r.result.error.message = BothMessage(r.name)
            /\ r.probed /\ r.issued = "none" =>
                  /\ IsMcp(r, InvalidRequest)
                  /\ Head(r.result.error.message) \in
                        {"Failed to upload image: ", "Failed to upload video: "}
            /\ r.opError # NoError /\ Is429(r.opError) =>
                  /\ IsMcp(r, InvalidRequest)
                  /\ r.result.error = r.thrown
                  /\ r.result.error.message = RateLimitMessage(EndpointOf(r.name))
            /\ r.opError # NoError /\ ~Is429(r.opError) =>
                  /\ IsMcp(r, InternalError)
                  /\ r.result.error.message = <<"Twitter API error: ">> \o r.opError.message
            /\ r.name \in ToolNames /\ ~r.hasArgs =>
                  /\ IsMcp(r, InternalError)
                  /\ Head(r.result.error.message) = "Twitter API error: "

\* a network error of the throttled remote call has left as an internal-error
C7_Witness ==
    \E i \in Slots :
        /\ inv[i].pc = "done"
        /\ inv[i].opError.code.t = "string"
        /\ IsMcp(inv[i], InternalError)

(* C8.  Media validation is a total function of (regular file or not, size, *)
(* lowercase extension, class): NotFound when the path is missing or not a    *)
(* regular file; otherwise TooLarge when the size exceeds 5 MiB (image) or    *)
(* 512 MiB (video); otherwise UnsupportedFormat when the extension is absent  *)
(* or outside the class's table; otherwise success with the mapped content    *)
(* type.  No file is read or uploaded unless validation succeeds.             *)
C8_Types(class) ==
    IF class = "image"
    THEN (S("png") :> "image/png") @@ (S("jpg") :> "image/jpeg") @@ (S("jpeg") :> "image/jpeg")
         @@ (S("gif") :> "image/gif") @@ (S("webp") :> "image/webp")
    ELSE (S("mp4") :> "video/mp4") @@ (S("mov") :> "video/quicktime")
         @@ (S("avi") :> "video/x-msvideo") @@ (S("webm") :> "video/webm")
         @@ (S("m4v") :> "video/x-m4v")

C8_Ceiling(class) == IF class = "image" THEN 5 * 1024 * 1024 ELSE 512 * 1024 * 1024

C8_Outcome(class, path, st) ==
    LET ext == SplitPop(ToLowerCase(path)) IN
    IF st.kind # "file" THEN "NotFound"
    ELSE IF st.size > C8_Ceiling(class) THEN "TooLarge"
    ELSE IF ext \notin DOMAIN C8_Types(class) THEN "UnsupportedFormat"
    ELSE C8_Types(class)[ext]

\* the failure class a validation message stands for
C8_Category(piece) ==
    CASE piece \in {"File not found: ", "Path is not a file: "} -> "NotFound"
      [] piece \in {"File size exceeds 5MB limit (", "Video size exceeds 512MB limit ("} -> "TooLarge"
      [] piece \in {"Unsupported file format. Supported formats: ",
                    "Unsupported video format. Supported formats: "} -> "UnsupportedFormat"
      [] OTHER -> "other"

C8_Claim ==
    \A i \in Slots :
        LET r == inv[i]
            class == IF r.image_path # NoPath THEN "image" ELSE "video"
            path == Resolve(IF r.image_path # NoPath THEN r.image_path ELSE r.video_path)
            claimed == C8_Outcome(class, path, Stat(fs, path))
        IN  r.probed /\ r.pc # "stat" =>
               IF r.readIssued
               THEN /\ claimed \notin {"NotFound", "TooLarge", "UnsupportedFormat"}
                    /\ r.pc \in {"read", "upload"} => r.mimeType = claimed
               ELSE /\ r.pc = "done"
                    /\ C8_Category(r.result.error.message[2]) = claimed

(* C9.  Where invocations on an endpoint are issued one at a time: once an     *)
(* operation has succeeded at time T the endpoint's instant is T + 15 minutes *)
(* and no later invocation starts its operation before T + 15 minutes, also   *)
(* when the successful call went through the throttle wait.  T is not earlier *)
(* than the end of that wait, and a call that follows the success at once     *)
(* arrives at T.                                                              *)
C9_Claim ==
    [][\A i \in Slots :
         /\ OpSettles(i) /\ inv'[i].result.kind = "content" =>
               /\ rateLimitResets'[inv[i].endpoint] <= clock + Cooldown
               /\ inv[i].waited =>
                     rateLimitResets'[inv[i].endpoint] >= inv[i].deadline + Cooldown
         /\ StartsAtOnce(i) => recent # EndpointOf(inv'[i].name)]_vars

(* C10.  withRateLimit does not serialize the invocations of an endpoint: an  *)
(* invocation waits only because the instant it read was in the future, it    *)
(* waits once and then runs its operation without reading the instant again,  *)
(* and an invocation that finds the instant passed runs its operation at      *)
(* once, whatever else is in flight.                                          *)
C10_Thm ==
    /\ [](\A i \in Slots :
            inv[i].pc = "waiting" =>
               /\ inv[i].now < inv[i].resetTime
               /\ inv[i].deadline = inv[i].resetTime + Buffer)
    /\ [][\A i \in Slots :
            /\ WaitEnds(i) => inv'[i].pc = "inflight" /\ clock >= inv[i].deadline
            /\ Enters(i) /\ clock >= rateLimitResets[EndpointOf(inv'[i].name)]
                 => inv'[i].pc = "inflight"]_vars

\* two invocations of one endpoint read the same instant, passed the check and are both
\* running their operation before either has stored a new instant
C10_Witness ==
    /\ inv[1].pc = "inflight"
    /\ inv[2].pc = "inflight"
    /\ inv[1].endpoint = inv[2].endpoint
    /\ rateLimitResets[inv[1].endpoint] = 0

====
